---- MODULE Spec2Model ----
(***************************************************************************)
(* A model of laserchicken's utilities: the neighborhood gatherers, the    *)
(* point-cloud copy and selection, the provenance log, the feature         *)
(* registry and the skew extractor.  Python objects are records carrying   *)
(* a kind and an identity; numpy arrays are sequences (1-based here,       *)
(* neighbor indices stay 0-based as in the code).                          *)
(***************************************************************************)
EXTENDS Integers, Sequences, FiniteSets, TLC

\* Bounds of the model.
MaxPoints == 2
MaxNeighborhoods == 2
MaxNeighbors == 3

VARIABLES
    sourcepc,               \* the source point cloud
    neighborhoods,          \* gatherers: the list of neighbor-index lists
    attribute_names,        \* gatherers: the attribute names
    xyz_result,             \* what get_xyz_per_neighborhood returned or raised
    attr_result,            \* what get_attributes_per_neighborhood returned or raised
    array_mask,             \* copy_point_cloud: the mask
    copied,                 \* what copy_point_cloud returned
    pc_in,                  \* select_below/select_above: the point cloud argument
    attribute,              \* select_below/select_above: the attribute name
    threshold,              \* select_below/select_above: the threshold
    below_result,           \* what select_below returned or raised
    above_result,           \* what select_above returned or raised
    point_cloud,            \* add_metadata: the point cloud it annotates
    module,                 \* add_metadata: the module of the last call
    params,                 \* add_metadata: the params of the last call
    now,                    \* the clock datetime.utcnow() reads
    calls,                  \* history: the number of add_metadata calls
    initial_provenance,     \* history: the provenance list before the first call
    appended,               \* history: the records the calls built, in order
    extractors,             \* the feature registry's list of extractors
    feature_map,            \* what create_default_feature_map returned or raised
    neighborhood,           \* SkewZFeatureExtractor.extract: the neighborhood
    skew_result             \* what SkewZFeatureExtractor.extract returned or raised

gatherVars == <<neighborhoods, attribute_names, xyz_result, attr_result>>
copyVars == <<array_mask, copied>>
selectVars == <<pc_in, attribute, threshold, below_result, above_result>>
metaVars == <<point_cloud, module, params, now, calls, initial_provenance, appended>>
registryVars == <<extractors, feature_map>>
skewVars == <<neighborhood, skew_result>>

vars == <<sourcepc, gatherVars, copyVars, selectVars, metaVars, registryVars, skewVars>>

(***************************************************************************)
(* Python values.                                                          *)
(***************************************************************************)
None == [kind |-> "none", id |-> 0, data |-> <<>>, items |-> <<>>]

NdArray(id, data) == [kind |-> "ndarray", id |-> id, data |-> data, items |-> <<>>]

Dict(id, items) == [kind |-> "dict", id |-> id, data |-> <<>>, items |-> items]

Other(id, data) == [kind |-> "other", id |-> id, data |-> data, items |-> <<>>]

EmptyItems == [k \in {} |-> None]

\* create_point_cloud: objects are numbered in the order they are built.
create_point_cloud(x, y, z) ==
    Dict(10, [k \in {"points", "point_cloud", "provenance"} |->
        CASE k = "points" ->
               Dict(7, [a \in {"x", "y", "z"} |->
                   CASE a = "x" -> Dict(2, [f \in {"type", "data"} |->
                                     IF f = "type" THEN Other(0, "float") ELSE NdArray(1, x)])
                     [] a = "y" -> Dict(4, [f \in {"type", "data"} |->
                                     IF f = "type" THEN Other(0, "float") ELSE NdArray(3, y)])
                     [] a = "z" -> Dict(6, [f \in {"type", "data"} |->
                                     IF f = "type" THEN Other(0, "float") ELSE NdArray(5, z)])])
          [] k = "point_cloud" -> Dict(8, EmptyItems)
          [] k = "provenance" -> Other(9, <<>>)])

\* point_cloud[keys.point][attribute_name]["data"]
PointData(pc, attribute_name) ==
    pc.items["points"].items[attribute_name].items["data"].data

PointAttributes(pc) == DOMAIN pc.items["points"].items

NumPoints(pc) == Len(PointData(pc, "x"))

(***************************************************************************)
(* Inputs.                                                                 *)
(***************************************************************************)
SeqsUpTo(S, n) == UNION {[1..k -> S] : k \in 0..n}

\* A coordinate array of P values: a rotation of 0..MaxPoints.
CoordArray(P, s) == [i \in 1..P |-> (s + i) % (MaxPoints + 1)]

Zeros(P) == [i \in 1..P |-> 0]

\* The source clouds of the gatherers: three distinct channels.
GatherClouds ==
    {create_point_cloud(CoordArray(P, s), CoordArray(P, s + 1), CoordArray(P, s + 2)) :
        P \in 0..MaxPoints, s \in 0..MaxPoints}

\* Neighbor indices: in range or not, depending on the cloud.
Indices == 0..MaxPoints

RECURSIVE NeighborhoodListsOf(_, _)
NeighborhoodListsOf(n, total) ==
    IF n = 0 THEN {<<>>}
    ELSE UNION {{<<h>> \o r : r \in NeighborhoodListsOf(n - 1, total - Len(h))} :
                   h \in SeqsUpTo(Indices, total)}

\* Lists of at most MaxNeighborhoods neighborhoods holding at most
\* MaxNeighbors indices together; duplicates and empty neighborhoods included.
NeighborhoodLists ==
    UNION {NeighborhoodListsOf(n, MaxNeighbors) : n \in 0..MaxNeighborhoods}

AttributeNameLists ==
    {<<>>, <<"z">>, <<"y", "x">>, <<"x", "y", "z">>, <<"z", "z">>, <<"x", "intensity">>}

(***************************************************************************)
(* numpy helpers.                                                          *)
(***************************************************************************)
Raise(exception) == [status |-> exception, data |-> <<>>, mask |-> <<>>, shape |-> <<>>]

\* np.ma.MaskedArray(data, mask); mask TRUE marks an invalid cell.
MaskedArray(data, mask, shape) ==
    [status |-> "ok", data |-> data, mask |-> mask, shape |-> shape]

NoResult == Raise("none")

SeqMax(s) == CHOOSE m \in {s[i] : i \in DOMAIN s} : \A i \in DOMAIN s : s[i] <= m

RECURSIVE Concatenate(_)
Concatenate(seqs) ==
    IF seqs = <<>> THEN <<>> ELSE Head(seqs) \o Concatenate(Tail(seqs))

Lengths(nbhs) == [i \in 1..Len(nbhs) |-> Len(nbhs[i])]

\* np.column_stack((x, y, z)): one row <<x, y, z>> per point.
ColumnStack(x, y, z) == [p \in 1..Len(x) |-> <<x[p], y[p], z[p]>>]

\* The True cells counted column by column.
ColumnMajorRank(mask, i, j) ==
    Cardinality({c \in (DOMAIN mask) \X (DOMAIN mask[i]) :
                    /\ mask[c[1]][c[2]]
                    /\ \/ c[2] < j
                       \/ c[2] = j /\ c[1] < i}) + 1

\* a[mask] = values: the True cells take the values in row-major order.
RowMajorRank(mask, i, j) ==
    Cardinality({c \in (DOMAIN mask) \X (DOMAIN mask[i]) :
                    /\ mask[c[1]][c[2]]
                    /\ \/ c[1] < i
                       \/ c[1] = i /\ c[2] < j}) + 1

AssignWhereColumnMajor(a, mask, values) ==
    [i \in DOMAIN a |-> [j \in DOMAIN a[i] |->
        IF mask[i][j] THEN values[ColumnMajorRank(mask, i, j)] ELSE a[i][j]]]

AssignWhere(a, mask, values) ==
    [i \in DOMAIN a |-> [j \in DOMAIN a[i] |->
        IF mask[i][j] THEN values[RowMajorRank(mask, i, j)] ELSE a[i][j]]]

\* ndarray.take / fancy indexing raise IndexError on an index out of bounds.
InBounds(index, n) == index >= 0 /\ index < n

\* a.take(indices, axis=0, mode='clip'): out-of-bounds indices are clipped.
TakeClip(a, indices) ==
    IF Len(a) = 0 /\ \E i \in DOMAIN indices : indices[i] # <<>>
    THEN [status |-> "IndexError", rows |-> <<>>]
    ELSE [status |-> "ok",
          rows |-> [i \in DOMAIN indices |-> [j \in DOMAIN indices[i] |->
                      IF indices[i][j] >= Len(a) THEN a[Len(a)] ELSE a[indices[i][j] + 1]]]]

\* a.take(indices, axis=0) for a 2-d array of indices (mode='raise').
Take(a, indices) ==
    IF \E i \in DOMAIN indices : \E j \in DOMAIN indices[i] :
           ~InBounds(indices[i][j], Len(a))
    THEN [status |-> "IndexError", rows |-> <<>>]
    ELSE [status |-> "ok",
          rows |-> [i \in DOMAIN indices |-> [j \in DOMAIN indices[i] |->
                      a[indices[i][j] + 1]]]]

(***************************************************************************)
(* get_xyz_per_neighborhood                                                *)
(***************************************************************************)
get_xyz_per_neighborhood(pc, nbhs) ==
    IF Len(nbhs) = 0 THEN Raise("ValueError")      \* lengths.max() of nothing
    ELSE
    LET lengths == Lengths(nbhs)
        max_length == SeqMax(lengths)
        N == Len(nbhs)
        xyz == ColumnStack(PointData(pc, "x"), PointData(pc, "y"), PointData(pc, "z"))
        arange == [i \in 1..N |-> [j \in 1..max_length |-> j - 1]]
        indices_mask == [i \in 1..N |-> [j \in 1..max_length |-> arange[i][j] < lengths[i]]]
        indices == AssignWhere(arange, indices_mask, Concatenate(nbhs))
        taken == Take(xyz, indices)
    IN  IF taken.status # "ok"
        THEN Raise(taken.status)                   \* xyz.take(indices, axis=0)
        ELSE
        LET xyz_grp == [i \in 1..N |-> [c \in 1..3 |-> [j \in 1..max_length |->
                           taken.rows[i][j][c]]]]         \* transpose((0, 2, 1))
            xyz_mask == [i \in 1..N |-> [c \in 1..3 |-> [j \in 1..max_length |->
                           ~indices_mask[i][j]]]]
            zeroed == [i \in 1..N |-> [c \in 1..3 |-> [j \in 1..max_length |->
                           IF xyz_mask[i][c][j] THEN 0 ELSE xyz_grp[i][c][j]]]]
        IN  MaskedArray(zeroed, xyz_mask, <<N, 3, max_length>>)

(***************************************************************************)
(* get_attributes_per_neighborhood                                         *)
(***************************************************************************)
\* get_attribute_value(point_cloud, index, attribute_name) with a list of
\* indices: what it raises, if anything.
get_attribute_value_error(pc, index, attribute_name) ==
    IF attribute_name \notin PointAttributes(pc) THEN "KeyError"
    ELSE IF \E k \in DOMAIN index :
                ~InBounds(index[k], Len(PointData(pc, attribute_name)))
         THEN "IndexError"
         ELSE "ok"

get_attribute_value(pc, index, attribute_name) ==
    [k \in DOMAIN index |-> PointData(pc, attribute_name)[index[k] + 1]]

get_attributes_per_neighborhood(pc, nbhs, names) ==
    IF Len(nbhs) = 0 THEN Raise("ValueError")      \* max() of an empty sequence
    ELSE
    LET lengths == Lengths(nbhs)
        max_length == SeqMax(lengths)
        N == Len(nbhs)
        C == Len(names)
        \* the loops visit (i_neighborhood, i_attribute) in this order
        visited == {c \in (1..N) \X (1..C) : lengths[c[1]] # 0}
        failing == {c \in visited :
                       get_attribute_value_error(pc, nbhs[c[1]], names[c[2]]) # "ok"}
    IN  IF failing # {}
        THEN LET first == CHOOSE c \in failing : \A d \in failing :
                              \/ c[1] < d[1]
                              \/ c[1] = d[1] /\ c[2] <= d[2]
             IN  Raise(get_attribute_value_error(pc, nbhs[first[1]], names[first[2]]))
        ELSE
        LET xyz_grp == [i \in 1..N |-> [a \in 1..C |-> [j \in 1..max_length |->
                           IF j <= lengths[i]
                           THEN get_attribute_value(pc, nbhs[i], names[a])[j]
                           ELSE 0]]]
            mask == [i \in 1..N |-> [a \in 1..C |-> [j \in 1..max_length |->
                           IF lengths[i] # 0 /\ j <= lengths[i] THEN 1 ELSE 0]]]
        IN  MaskedArray(xyz_grp,
                        [i \in 1..N |-> [a \in 1..C |-> [j \in 1..max_length |->
                            mask[i][a][j] = 0]]],
                        <<N, C, max_length>>)


(***************************************************************************)
(* copy_point_cloud                                                        *)
(***************************************************************************)
\* any(value) over an array of numbers: some element is not zero.
AnyNonZero(data) == \E i \in DOMAIN data : data[i] # 0

RECURSIVE BooleanIndexInverted(_, _)
BooleanIndexInverted(data, mask) ==
    IF data = <<>> THEN <<>>
    ELSE (IF Head(mask) THEN <<>> ELSE <<Head(data)>>)
             \o BooleanIndexInverted(Tail(data), Tail(mask))

\* value[array_mask] with a boolean mask: the elements at the True positions.
RECURSIVE BooleanIndex(_, _)
BooleanIndex(data, mask) ==
    IF data = <<>> THEN <<>>
    ELSE (IF Head(mask) THEN <<Head(data)>> ELSE <<>>)
             \o BooleanIndex(Tail(data), Tail(mask))

\* The ndarray branch with value[~array_mask] for value[array_mask].
CopyArrayInvertedMask(value, mask, new_id) ==
    IF mask.kind # "none"
    THEN IF AnyNonZero(value.data)
         THEN NdArray(new_id, BooleanIndexInverted(value.data, mask.data))
         ELSE NdArray(new_id, value.data)
    ELSE NdArray(new_id, value.data)

\* The ndarray branch; the new array is object number new_id.
CopyArray(value, mask, new_id) ==
    IF mask.kind # "none"
    THEN IF AnyNonZero(value.data)
         THEN NdArray(new_id, BooleanIndex(value.data, mask.data))
         ELSE NdArray(new_id, value.data)
    ELSE NdArray(new_id, value.data)

\* The loop over source_point_cloud.items(); the objects it builds are
\* numbered after the `allocated` objects that exist already.
RECURSIVE CopyItems(_, _, _)
CopyItems(source_point_cloud, mask, allocated) ==
    Dict(source_point_cloud.id + allocated,
         [key \in DOMAIN source_point_cloud.items |->
             LET value == source_point_cloud.items[key]
             IN  IF value.kind = "dict" THEN CopyItems(value, mask, allocated)
                 ELSE IF value.kind = "ndarray"
                      THEN CopyArray(value, mask, value.id + allocated)
                      ELSE value])

IdMax(a, b) == IF a >= b THEN a ELSE b

copy_point_cloud(source_point_cloud, mask) ==
    CopyItems(source_point_cloud, mask, IdMax(source_point_cloud.id, mask.id))

\* The masks of a cloud: None, or a new array of one boolean per point.
ArrayMasks(pc) == {None} \cup {NdArray(pc.id + 1, m) : m \in [1..NumPoints(pc) -> BOOLEAN]}

\* A cloud's coordinate arrays drawn independently, all-zero arrays included.
CoordArrays(P) == {CoordArray(P, s) : s \in 0..MaxPoints} \cup {Zeros(P)}

Clouds ==
    UNION {{create_point_cloud(x, y, z) :
               x \in CoordArrays(P), y \in CoordArrays(P), z \in CoordArrays(P)} :
           P \in 0..MaxPoints}

(***************************************************************************)
(* select_below, select_above                                              *)
(***************************************************************************)
Str(s) == Other(0, s)

Returned(value) == [status |-> "ok", value |-> value]

Raised(exception) == [status |-> exception, value |-> None]

NotCalled == Raised("none")

\* The validation of the arguments.
select_check_no_key_test(pc, attr) ==
    IF pc.kind = "none" THEN "ValueError"
    ELSE IF attr.kind = "none" THEN "ValueError"
    ELSE IF attr.data \notin PointAttributes(pc) THEN "KeyError"
    ELSE "ok"

select_check(pc, attr) ==
    IF pc.kind = "none" THEN "ValueError"
    ELSE IF attr.kind = "none" THEN "ValueError"
    ELSE IF attr.data \notin PointAttributes(pc) THEN "ValueError"
    ELSE "ok"

\* point_cloud[points][attribute]['data'] < threshold, a new boolean array.
BelowMask(pc, attr, t) ==
    NdArray(pc.id + 1, [i \in 1..Len(PointData(pc, attr.data)) |->
                           PointData(pc, attr.data)[i] < t])

AboveMask(pc, attr, t) ==
    NdArray(pc.id + 1, [i \in 1..Len(PointData(pc, attr.data)) |->
                           PointData(pc, attr.data)[i] > t])

select_below(pc, attr, t) ==
    IF select_check(pc, attr) # "ok" THEN Raised(select_check(pc, attr))
    ELSE Returned(copy_point_cloud(pc, BelowMask(pc, attr, t)))

select_above(pc, attr, t) ==
    IF select_check(pc, attr) # "ok" THEN Raised(select_check(pc, attr))
    ELSE Returned(copy_point_cloud(pc, AboveMask(pc, attr, t)))

\* The attribute names tried: present, unknown, None.
AttributeArgs == {Str("x"), Str("y"), Str("z"), Str("unknown_key_123"), None}

\* Thresholds below, among and above the coordinate values 0..MaxPoints.
Thresholds == (0 - 1)..(MaxPoints + 1)

(***************************************************************************)
(* add_metadata                                                            *)
(***************************************************************************)
MaxParams == 2
MaxCalls == 2

\* _version.__version__
Version == "__version__"

\* The params collections: lists of numbers, and dicts, which iterate over
\* their keys (each key k is given the value 1 - k).
ListParams == {[kind |-> "list", elems |-> e, vals |-> <<>>] : e \in SeqsUpTo({0, 1}, MaxParams)}

DictParams ==
    {[kind |-> "dict", elems |-> e, vals |-> [i \in DOMAIN e |-> 1 - e[i]]] :
        e \in {q \in SeqsUpTo({0, 1}, MaxParams) :
                  \A i \in DOMAIN q : \A j \in DOMAIN q : q[i] = q[j] => i = j}}

ParamsArgs == ListParams \cup DictParams

\* The module argument: an object with a __name__, or one without (a string).
ModuleArgs ==
    {[has_name |-> TRUE, name |-> "laserchicken.select", str |-> "<module>"],
     [has_name |-> FALSE, name |-> "", str |-> "filter"]}

ModuleName(m) == IF m.has_name THEN m.name ELSE m.str

\* len(params) > 0
NonEmpty(p) == Len(p.elems) > 0

\* any(params): some element of the iteration is truthy.
AnyTruthy(p) == \E i \in DOMAIN p.elems : p.elems[i] # 0

\* The record add_metadata builds.
Message(time, m, p) ==
    IF AnyTruthy(p)
    THEN [time |-> time, module |-> ModuleName(m), parameters |-> p, version |-> Version]
    ELSE [time |-> time, module |-> ModuleName(m), version |-> Version]

HasProvenance(pc) == "provenance" \in DOMAIN pc.items

Provenance(pc) == pc.items["provenance"].data

\* point_cloud[key] = value
SetItem(pc, key, value) ==
    Dict(pc.id, [k \in DOMAIN pc.items \cup {key} |-> IF k = key THEN value ELSE pc.items[k]])

\* A new, empty provenance list is put in place on every call.
add_metadata_fresh_list(pc, m, p, time) ==
    SetItem(pc, "provenance", Other(pc.id + 1, <<Message(time, m, p)>>))

add_metadata(pc, m, p, time) ==
    LET with_list == IF HasProvenance(pc) THEN pc
                     ELSE SetItem(pc, "provenance", Other(pc.id + 1, <<>>))
        list == with_list.items["provenance"]
    IN  SetItem(with_list, "provenance",
                Other(list.id, Append(list.data, Message(time, m, p))))

\* The clouds annotated: a new one, one with no provenance key, and one that
\* already holds a record.
WithoutProvenance(pc) ==
    Dict(pc.id, [k \in DOMAIN pc.items \ {"provenance"} |-> pc.items[k]])

AnnotatedClouds ==
    LET pc == create_point_cloud(<<1>>, <<2>>, <<0>>)
    IN  {pc, WithoutProvenance(pc),
         SetItem(pc, "provenance",
                 Other(9, <<[time |-> 0, module |-> "load", version |-> Version]>>))}

(***************************************************************************)
(* create_default_feature_map                                              *)
(***************************************************************************)
MaxExtractors == 3

\* Extractor classes and parameterizations, by what provides() returns.
ExtractorClasses ==
    {[cls |-> "SkewZFeatureExtractor()", provides |-> <<"skew_z">>],
     [cls |-> "PercentileZFeatureExtractor(1)", provides |-> <<"perc_1_z">>],
     [cls |-> "PercentileZFeatureExtractor(2)", provides |-> <<"perc_2_z">>],
     [cls |-> "MeanStdCoeffFeatureExtractor()",
      provides |-> <<"mean_z", "std_z", "coeff_var_z">>],
     [cls |-> "EntropyFeatureExtractor()", provides |-> <<"entropy_z">>]}

\* A list of extractor instances; instance i is the i-th object built.
ExtractorLists ==
    UNION {{[i \in 1..n |-> [id |-> i, cls |-> c[i].cls, provides |-> c[i].provides]] :
               c \in [1..n -> ExtractorClasses]} : n \in 0..MaxExtractors}

\* [(feature_name, extractor) for extractor in extractors
\*                            for feature_name in extractor.provides()]
RECURSIVE create_name_extractor_pairs(_)
create_name_extractor_pairs(list) ==
    IF list = <<>> THEN <<>>
    ELSE [k \in 1..Len(Head(list).provides) |-> <<Head(list).provides[k], Head(list)>>]
             \o create_name_extractor_pairs(Tail(list))

\* {feature_name: extractor for feature_name, extractor in pairs}: a later
\* pair replaces an earlier one of the same name.
DictOfPairs(pairs) ==
    [name \in {pairs[k][1] : k \in DOMAIN pairs} |->
        LET last == CHOOSE k \in DOMAIN pairs :
                        /\ pairs[k][1] = name
                        /\ \A l \in DOMAIN pairs : pairs[l][1] = name => l <= k
        IN  pairs[last][2]]

create_default_feature_map(list) ==
    [status |-> "ok", map |-> DictOfPairs(create_name_extractor_pairs(list))]

NoMap == [status |-> "none", map |-> <<>>]

(***************************************************************************)
(* SkewZFeatureExtractor.extract                                           *)
(***************************************************************************)
List(data) == Other(0, data)

\* A neighborhood argument: None or a list of indices.
NeighborhoodArgs == {None} \cup {List(n) : n \in SeqsUpTo(Indices, MaxNeighbors)}

IsNotNone(value) == value.kind # "none"

\* bool(neighborhood): None and the empty list are falsy.
Truthy(value) == value.kind # "none" /\ Len(value.data) > 0

RECURSIVE Sum(_)
Sum(s) == IF s = <<>> THEN 0 ELSE Head(s) + Sum(Tail(s))

NaN == [kind |-> "nan", n |-> 0, m2 |-> 0, m3 |-> 0]

\* scipy's skew of z: m3 / m2^1.5 with the biased central moments
\* m_k = sum((z - mean)^k) / n.  With d_i = n * z_i - sum(z) this is
\* sqrt(n) * sum(d^3) / sum(d^2)^1.5; the three integers stand for it.
Skew(z) ==
    LET n == Len(z)
        d == [i \in 1..n |-> n * z[i] - Sum(z)]
    IN  [kind |-> "float", n |-> n,
         m2 |-> Sum([i \in 1..n |-> d[i] * d[i]]),
         m3 |-> Sum([i \in 1..n |-> d[i] * d[i] * d[i]])]

extract(pc, nbh) ==
    IF Truthy(nbh)
    THEN IF pc.kind = "none" THEN Raised("TypeError")
         ELSE IF \E k \in DOMAIN nbh.data : ~InBounds(nbh.data[k], Len(PointData(pc, "z")))
              THEN Raised("IndexError")
              ELSE Returned(Skew([k \in DOMAIN nbh.data |-> PointData(pc, "z")[nbh.data[k] + 1]]))
    ELSE Returned(NaN)

(***************************************************************************)
(* Specifications: one per group of operations.  Each draws the arguments  *)
(* in its initial states; its actions are the calls.                       *)
(***************************************************************************)
GatherIdle ==
    /\ neighborhoods = <<>>
    /\ attribute_names = <<>>
    /\ xyz_result = NoResult
    /\ attr_result = NoResult

CopyIdle ==
    /\ array_mask = None
    /\ copied = NotCalled

SelectIdle ==
    /\ pc_in = None
    /\ attribute = None
    /\ threshold = 0
    /\ below_result = NotCalled
    /\ above_result = NotCalled

MetaIdle ==
    /\ point_cloud = None
    /\ module = [has_name |-> FALSE, name |-> "", str |-> ""]
    /\ params = [kind |-> "list", elems |-> <<>>, vals |-> <<>>]
    /\ now = 0
    /\ calls = 0
    /\ initial_provenance = <<>>
    /\ appended = <<>>

RegistryIdle ==
    /\ extractors = <<>>
    /\ feature_map = NoMap

SkewIdle ==
    /\ neighborhood = None
    /\ skew_result = NotCalled

\* -- the gatherers
InitGather ==
    /\ sourcepc \in GatherClouds
    /\ neighborhoods \in NeighborhoodLists
    /\ attribute_names \in AttributeNameLists
    /\ xyz_result = NoResult
    /\ attr_result = NoResult
    /\ CopyIdle /\ SelectIdle /\ MetaIdle /\ RegistryIdle /\ SkewIdle

GetXyzPerNeighborhood ==
    /\ xyz_result' = get_xyz_per_neighborhood(sourcepc, neighborhoods)
    /\ UNCHANGED <<sourcepc, neighborhoods, attribute_names, attr_result>>
    /\ UNCHANGED <<copyVars, selectVars, metaVars, registryVars, skewVars>>

GetAttributesPerNeighborhood ==
    /\ attr_result' =
           get_attributes_per_neighborhood(sourcepc, neighborhoods, attribute_names)
    /\ UNCHANGED <<sourcepc, neighborhoods, attribute_names, xyz_result>>
    /\ UNCHANGED <<copyVars, selectVars, metaVars, registryVars, skewVars>>

NextGather == GetXyzPerNeighborhood \/ GetAttributesPerNeighborhood

SpecGather == InitGather /\ [][NextGather]_vars

\* -- copy_point_cloud
InitCopy ==
    /\ sourcepc \in Clouds
    /\ array_mask \in ArrayMasks(sourcepc)
    /\ copied = NotCalled
    /\ GatherIdle /\ SelectIdle /\ MetaIdle /\ RegistryIdle /\ SkewIdle

CopyPointCloud ==
    /\ copied' = Returned(copy_point_cloud(sourcepc, array_mask))
    /\ UNCHANGED <<sourcepc, array_mask>>
    /\ UNCHANGED <<gatherVars, selectVars, metaVars, registryVars, skewVars>>

NextCopy == CopyPointCloud

SpecCopy == InitCopy /\ [][NextCopy]_vars

\* -- select_below, select_above
InitSelect ==
    /\ sourcepc \in Clouds
    /\ pc_in \in {sourcepc, None}
    /\ attribute \in AttributeArgs
    /\ threshold \in Thresholds
    /\ below_result = NotCalled
    /\ above_result = NotCalled
    /\ GatherIdle /\ CopyIdle /\ MetaIdle /\ RegistryIdle /\ SkewIdle

SelectBelow ==
    /\ below_result' = select_below(pc_in, attribute, threshold)
    /\ UNCHANGED <<sourcepc, pc_in, attribute, threshold, above_result>>
    /\ UNCHANGED <<gatherVars, copyVars, metaVars, registryVars, skewVars>>

SelectAbove ==
    /\ above_result' = select_above(pc_in, attribute, threshold)
    /\ UNCHANGED <<sourcepc, pc_in, attribute, threshold, below_result>>
    /\ UNCHANGED <<gatherVars, copyVars, metaVars, registryVars, skewVars>>

NextSelect == SelectBelow \/ SelectAbove

SpecSelect == InitSelect /\ [][NextSelect]_vars

\* -- add_metadata
InitMeta ==
    /\ point_cloud \in AnnotatedClouds
    /\ initial_provenance = IF HasProvenance(point_cloud) THEN Provenance(point_cloud) ELSE <<>>
    /\ module = [has_name |-> FALSE, name |-> "", str |-> ""]
    /\ params = [kind |-> "list", elems |-> <<>>, vals |-> <<>>]
    /\ now = 1
    /\ calls = 0
    /\ appended = <<>>
    /\ sourcepc = None
    /\ GatherIdle /\ CopyIdle /\ SelectIdle /\ RegistryIdle /\ SkewIdle

AddMetadata ==
    \E m \in ModuleArgs, p \in ParamsArgs :
        /\ calls < MaxCalls
        /\ point_cloud' = add_metadata(point_cloud, m, p, now)
        /\ module' = m
        /\ params' = p
        /\ now' = now + 1
        /\ calls' = calls + 1
        /\ appended' = Append(appended, Message(now, m, p))
        /\ UNCHANGED <<sourcepc, initial_provenance>>
        /\ UNCHANGED <<gatherVars, copyVars, selectVars, registryVars, skewVars>>

NextMeta == AddMetadata

SpecMeta == InitMeta /\ [][NextMeta]_vars

\* -- create_default_feature_map
InitRegistry ==
    /\ extractors \in ExtractorLists
    /\ feature_map = NoMap
    /\ sourcepc = None
    /\ GatherIdle /\ CopyIdle /\ SelectIdle /\ MetaIdle /\ SkewIdle

CreateDefaultFeatureMap ==
    /\ feature_map' = create_default_feature_map(extractors)
    /\ UNCHANGED <<sourcepc, extractors>>
    /\ UNCHANGED <<gatherVars, copyVars, selectVars, metaVars, skewVars>>

NextRegistry == CreateDefaultFeatureMap

SpecRegistry == InitRegistry /\ [][NextRegistry]_vars

\* -- SkewZFeatureExtractor.extract
InitSkew ==
    /\ sourcepc \in Clouds \cup {None}
    /\ neighborhood \in NeighborhoodArgs
    /\ skew_result = NotCalled
    /\ GatherIdle /\ CopyIdle /\ SelectIdle /\ MetaIdle /\ RegistryIdle

Extract ==
    /\ skew_result' = extract(sourcepc, neighborhood)
    /\ UNCHANGED <<sourcepc, neighborhood>>
    /\ UNCHANGED <<gatherVars, copyVars, selectVars, metaVars, registryVars>>

NextSkew == Extract

SpecSkew == InitSkew /\ [][NextSkew]_vars

(***************************************************************************)
(* Claims about the gatherers.                                             *)
(***************************************************************************)
XyzNames == <<"x", "y", "z">>

XyzCalled == xyz_result.status # "none"

AttrCalled == attr_result.status # "none"

\* Every index of every neighborhood is a valid index of the source cloud.
IndicesValid ==
    \A i \in DOMAIN neighborhoods : \A j \in DOMAIN neighborhoods[i] :
        InBounds(neighborhoods[i][j], NumPoints(sourcepc))

NamesPresent ==
    \A a \in DOMAIN attribute_names : attribute_names[a] \in PointAttributes(sourcepc)

MaxNeighborhoodLength == SeqMax(Lengths(neighborhoods))

\* The padding/mask policy of one returned tensor with C channels.
PaddedAndMasked(result, C) ==
    /\ result.status = "ok"
    /\ result.shape = <<Len(neighborhoods), C, MaxNeighborhoodLength>>
    /\ \A i \in 1..Len(neighborhoods) : \A c \in 1..C : \A j \in 1..MaxNeighborhoodLength :
          /\ result.mask[i][c][j] <=> (j - 1 >= Len(neighborhoods[i]))
          /\ result.mask[i][c][j] => result.data[i][c][j] = 0

\* C1: for a non-empty list of neighborhoods with valid indices, both
\* gatherers return a tensor of shape (N, C, L) whose cell (i, c, j) is
\* masked exactly when j >= n_i, masked cells holding 0.
C1_PaddingAndMask ==
    (neighborhoods # <<>> /\ IndicesValid) =>
        /\ XyzCalled => PaddedAndMasked(xyz_result, 3)
        /\ (AttrCalled /\ NamesPresent) =>
               PaddedAndMasked(attr_result, Len(attribute_names))

\* The valid cells of a returned tensor hold the named channels' values at
\* the neighbor indices, in the order of the neighborhood.
ValidCellsInOrder(result, names) ==
    \A i \in 1..Len(neighborhoods) : \A c \in 1..Len(names) :
        \A j \in 1..Len(neighborhoods[i]) :
            /\ ~result.mask[i][c][j]
            /\ result.data[i][c][j] =
                   PointData(sourcepc, names[c])[neighborhoods[i][j] + 1]

AllSourceIndices == [p \in 1..NumPoints(sourcepc) |-> p - 1]

\* A neighborhood listing every source index once, in order, gathers the
\* source arrays themselves.
RoundTrip(result, names) ==
    \A i \in 1..Len(neighborhoods) : \A c \in 1..Len(names) :
        (neighborhoods[i] = AllSourceIndices /\ names[c] \in PointAttributes(sourcepc)) =>
            SubSeq(result.data[i][c], 1, NumPoints(sourcepc)) =
                PointData(sourcepc, names[c])

\* C2: a returned tensor's valid cell (i, c, j) holds channel c's value at
\* source index neighborhoods[i][j]: neither neighbors nor channels are
\* reordered, and a neighborhood of all source indices returns the source
\* arrays.
C2_GatherKeepsOrder ==
    /\ xyz_result.status = "ok" =>
          /\ ValidCellsInOrder(xyz_result, XyzNames)
          /\ RoundTrip(xyz_result, XyzNames)
    /\ attr_result.status = "ok" =>
          /\ ValidCellsInOrder(attr_result, attribute_names)
          /\ RoundTrip(attr_result, attribute_names)

\* Both gatherers returned; a first neighborhood lists all (two or more)
\* source indices in order and a second one repeats an index.
C2_Witness ==
    /\ xyz_result.status = "ok"
    /\ attr_result.status = "ok"
    /\ NumPoints(sourcepc) >= 2
    /\ Len(neighborhoods) = 2
    /\ neighborhoods[1] = AllSourceIndices
    /\ neighborhoods[2] = <<0>>
    /\ Len(attribute_names) >= 2

SomeIndexExceedsCount ==
    \E i \in DOMAIN neighborhoods : \E j \in DOMAIN neighborhoods[i] :
        neighborhoods[i][j] > NumPoints(sourcepc)

SomeIndexOutOfRange ==
    \E i \in DOMAIN neighborhoods : \E j \in DOMAIN neighborhoods[i] :
        neighborhoods[i][j] >= NumPoints(sourcepc)

\* C3 as stated: get_xyz_per_neighborhood raises ValueError when an index
\* exceeds the point count and when the list of neighborhoods is empty.
C3_ValueErrorOnBadInput ==
    (XyzCalled /\ (neighborhoods = <<>> \/ SomeIndexExceedsCount)) =>
        xyz_result.status = "ValueError"

\* C3 amended: get_xyz_per_neighborhood returns no tensor on such input; it
\* raises ValueError for an empty list and IndexError for an index at or
\* beyond the point count.
C3_FailsOnBadInput ==
    XyzCalled =>
        /\ neighborhoods = <<>> => xyz_result.status = "ValueError"
        /\ (neighborhoods # <<>> /\ SomeIndexOutOfRange) =>
               xyz_result.status = "IndexError"

C3_Witness ==
    /\ XyzCalled
    /\ NumPoints(sourcepc) >= 1
    /\ SomeIndexExceedsCount
    /\ xyz_result.status = "IndexError"

(***************************************************************************)
(* Claims about the feature registry.                                      *)
(***************************************************************************)
RegistryBuilt == feature_map.status # "none"

\* Two extractor instances of the list provide a common feature name.
SharedName ==
    \E i \in DOMAIN extractors : \E j \in DOMAIN extractors :
        /\ i # j
        /\ \E k \in DOMAIN extractors[i].provides : \E l \in DOMAIN extractors[j].provides :
               extractors[i].provides[k] = extractors[j].provides[l]

\* C4: building the registry over a list in which two extractor instances
\* provide the same name fails; no mapping is returned.
C4_DuplicateNamesRejected ==
    (RegistryBuilt /\ SharedName) => feature_map.status # "ok"

(***************************************************************************)
(* Claims about selection and copy_point_cloud.                            *)
(***************************************************************************)
AttributePresent ==
    /\ pc_in.kind # "none"
    /\ attribute.kind # "none"
    /\ attribute.data \in PointAttributes(pc_in)

\* The same per-point attributes with the same values in the same order.
SamePoints(pc, out) ==
    /\ PointAttributes(out) = PointAttributes(pc)
    /\ NumPoints(out) = NumPoints(pc)
    /\ \A a \in PointAttributes(pc) : PointData(out, a) = PointData(pc, a)

AllValuesBelow(t) ==
    \A i \in DOMAIN PointData(pc_in, attribute.data) : PointData(pc_in, attribute.data)[i] < t

AllValuesAbove(t) ==
    \A i \in DOMAIN PointData(pc_in, attribute.data) : PointData(pc_in, attribute.data)[i] > t

KeptEverything(result) ==
    /\ result.status = "ok"
    /\ SamePoints(pc_in, result.value)
    /\ result.value.id # pc_in.id

\* C5: a selection on a present attribute that keeps every point returns a
\* point cloud with the same points, attribute by attribute, that is
\* another object than its input.
C5_SelectEverythingCopies ==
    /\ (below_result.status # "none" /\ AttributePresent /\ AllValuesBelow(threshold)) =>
           KeptEverything(below_result)
    /\ (above_result.status # "none" /\ AttributePresent /\ AllValuesAbove(threshold)) =>
           KeptEverything(above_result)

\* Both selections ran on a cloud of two or more points, one attribute of
\* which is zero everywhere, and select_below kept every point.
C5_Witness ==
    /\ below_result.status = "ok"
    /\ above_result.status = "ok"
    /\ AttributePresent
    /\ NumPoints(pc_in) >= 2
    /\ AllValuesBelow(threshold)
    /\ PointData(pc_in, "x") = Zeros(NumPoints(pc_in))
    /\ attribute.data = "z"
    /\ AnyNonZero(PointData(pc_in, "z"))

FailedWithValueError(result) == result.status = "ValueError" /\ result.value = None

\* C6: select_below and select_above raise ValueError and return nothing
\* when the point cloud is None, when the attribute name is None and when
\* the attribute name is not a key of the cloud's per-point attributes.
C6_SelectValidatesArguments ==
    ~AttributePresent =>
        /\ below_result.status # "none" => FailedWithValueError(below_result)
        /\ above_result.status # "none" => FailedWithValueError(above_result)

\* Both selections were called with a cloud and a name it does not hold.
C6_Witness ==
    /\ pc_in.kind # "none"
    /\ attribute = Str("unknown_key_123")
    /\ FailedWithValueError(below_result)
    /\ FailedWithValueError(above_result)

CountTrue(mask) == Cardinality({i \in DOMAIN mask : mask[i]})

\* C9: with a boolean mask of one entry per point, every per-point array of
\* the copy holds the source values at the True positions, in order, so all
\* of them have the length of the number of True entries.
C9_CopyKeepsEqualLength ==
    (copied.status = "ok" /\ array_mask.kind # "none") =>
        \A a \in PointAttributes(sourcepc) :
            /\ Len(PointData(copied.value, a)) = CountTrue(array_mask.data)
            /\ PointData(copied.value, a) = BooleanIndex(PointData(sourcepc, a), array_mask.data)

(***************************************************************************)
(* Claims about add_metadata.                                              *)
(***************************************************************************)
RequiredKeys == {"time", "module", "version"}

\* C7: after any number of add_metadata calls the provenance list is the
\* initial list (empty when the key was absent) followed by one record per
\* call, in call order, each with the keys time, module and version.
C7_ProvenanceAppendOnly ==
    calls > 0 =>
        /\ HasProvenance(point_cloud)
        /\ Len(Provenance(point_cloud)) = Len(initial_provenance) + calls
        /\ Provenance(point_cloud) = initial_provenance \o appended
        /\ \A i \in (Len(initial_provenance) + 1)..Len(Provenance(point_cloud)) :
               RequiredKeys \subseteq DOMAIN Provenance(point_cloud)[i]

\* Two calls on a cloud that already held a record.
C7_Witness ==
    /\ calls = 2
    /\ Len(initial_provenance) = 1
    /\ Len(Provenance(point_cloud)) = 3

LastRecord == Provenance(point_cloud)[Len(Provenance(point_cloud))]

\* C10: the record of the last call holds the key parameters, with the
\* given params, exactly when params is not empty.
C10_ParametersWhenNonEmpty ==
    calls > 0 =>
        /\ NonEmpty(params) <=> "parameters" \in DOMAIN LastRecord
        /\ "parameters" \in DOMAIN LastRecord => LastRecord.parameters = params

(***************************************************************************)
(* Claims about SkewZFeatureExtractor.extract.                             *)
(***************************************************************************)
EmptyOrAbsent == neighborhood.kind = "none" \/ neighborhood.data = <<>>

\* C8: extract on an empty or absent neighborhood returns not-a-number,
\* whatever the source cloud: no exception, no zero.
C8_EmptyNeighborhoodIsNaN ==
    (skew_result.status # "none" /\ EmptyOrAbsent) => skew_result = Returned(NaN)

\* extract ran on the empty list with a cloud whose z is not constant.
C8_Witness ==
    /\ skew_result.status = "ok"
    /\ neighborhood = List(<<>>)
    /\ sourcepc.kind # "none"
    /\ NumPoints(sourcepc) >= 2
    /\ PointData(sourcepc, "z")[1] # PointData(sourcepc, "z")[2]

====
